---- MODULE Spec2Model ----
(***************************************************************************)
(* libbsp: the Quake BSP (version 29) loader of src/libbsp/src/libbsp/bsp.c *)
(* as a state machine.  The state is the byte stream handed to             *)
(* bsp_load_file, the caller's allocator (every block it handed out, with  *)
(* the number of times the block was passed to the free function), the     *)
(* fields of the bsp_t object and the position of the caller in the        *)
(* sequence bsp_create, bsp_load_file, bsp_destroy.                        *)
(*                                                                         *)
(* Widths: int32_t fields are read from four little-endian bytes; size_t   *)
(* is 64 bits wide and is computed in four limbs of 16 bits where a cast   *)
(* of a negative int32_t can reach it (read_miptex); pointers are 8 bytes. *)
(***************************************************************************)
EXTENDS Integers, Sequences, FiniteSets, TLC

VARIABLES
    file,       \* the bytes of the stream behind the FILE*
    failAt,     \* the allocator returns NULL on this request (0: on none)
    pc,         \* where the caller is
    next,       \* index of the lump decoder bsp_load_file runs next
    bsp,        \* the pointer bsp_create returned (NULL = 0)
    out,        \* the fields of *bsp
    heap,       \* every block the allocator handed out
    nalloc,     \* number of requests made to the allocator
    fpos,       \* file position indicator of the stream
    ret,        \* what the last bsp_load_file returned (-1: not returned)
    g,          \* observations of the calls made so far
    loads,      \* number of bsp_load_file calls made
    runs        \* the lump decoders the current bsp_load_file called, in order

vars == <<file, failAt, pc, next, bsp, out, heap, nalloc, fpos, ret, g, loads, runs>>

(***************************************************************************)
(* Bounds of the model.                                                    *)
(***************************************************************************)
MaxTextLen == 4     \* entity texts: every byte string up to this length
MaxFailAt == 6      \* the failing allocation request is drawn from 0..MaxFailAt
MaxFailAtLong == 24 \* the same for the streams that make many requests
MaxMipCount == 2    \* miptexture directories hold up to this many offsets
MaxLoads == 2       \* bsp_load_file is called up to this many times on one object

(***************************************************************************)
(* Program constants.                                                      *)
(***************************************************************************)
BSP_VERSION == 29
BSP_LUMP_COUNT == 15
LUMP_ENTITIES == 0
LUMP_PLANES == 1
LUMP_MIPTEX == 2
LUMP_VERTICES == 3
LUMP_VISDATA == 4
LUMP_NODES == 5
LUMP_TEXINFO == 6
LUMP_FACES == 7
LUMP_LIGHTING == 8
LUMP_CLIPNODES == 9
LUMP_LEAVES == 10
LUMP_FACELISTS == 11
LUMP_EDGES == 12
LUMP_SURFEDGES == 13
LUMP_MODELS == 14

NULL == 0
SizeofInt32 == 4
SizeofLump == 2 * SizeofInt32
SizeofHeader == SizeofInt32 + BSP_LUMP_COUNT * SizeofLump
SizeofPointer == 8
SizeofMiptex == 16 + 4 + 4 + 4 * 4
SizeofEntity == SizeofPointer + 8
SizeofProperty == 2 * SizeofPointer
EntityCapacity == 16
PropertyCapacity == 8

\* sizeof of the record of each fixed-record lump (1 for the raw byte lumps)
RecordSize(k) ==
    CASE k = LUMP_PLANES -> 20
      [] k = LUMP_VERTICES -> 12
      [] k = LUMP_NODES -> 24
      [] k = LUMP_TEXINFO -> 40
      [] k = LUMP_FACES -> 20
      [] k = LUMP_CLIPNODES -> 8
      [] k = LUMP_LEAVES -> 24
      [] k = LUMP_FACELISTS -> 2
      [] k = LUMP_EDGES -> 4
      [] k = LUMP_SURFEDGES -> 4
      [] k = LUMP_MODELS -> 60
      [] OTHER -> 1

\* the pointer field and the count field of bsp_t each lump is decoded into
ArrayField(k) ==
    CASE k = LUMP_ENTITIES -> "entities"
      [] k = LUMP_PLANES -> "planes"
      [] k = LUMP_MIPTEX -> "miptex_raw"
      [] k = LUMP_VERTICES -> "vertices"
      [] k = LUMP_VISDATA -> "visdata_data"
      [] k = LUMP_NODES -> "nodes"
      [] k = LUMP_TEXINFO -> "texinfo"
      [] k = LUMP_FACES -> "faces"
      [] k = LUMP_LIGHTING -> "lighting_data"
      [] k = LUMP_CLIPNODES -> "clipnodes"
      [] k = LUMP_LEAVES -> "leaves"
      [] k = LUMP_FACELISTS -> "facelist_indices"
      [] k = LUMP_EDGES -> "edges"
      [] k = LUMP_SURFEDGES -> "surfedges_indices"
      [] OTHER -> "models"

CountField(k) ==
    CASE k = LUMP_ENTITIES -> "num_entities"
      [] k = LUMP_PLANES -> "num_planes"
      [] k = LUMP_MIPTEX -> "miptex_raw_size"
      [] k = LUMP_VERTICES -> "num_vertices"
      [] k = LUMP_VISDATA -> "visdata_size"
      [] k = LUMP_NODES -> "num_nodes"
      [] k = LUMP_TEXINFO -> "num_texinfo"
      [] k = LUMP_FACES -> "num_faces"
      [] k = LUMP_LIGHTING -> "lighting_size"
      [] k = LUMP_CLIPNODES -> "num_clipnodes"
      [] k = LUMP_LEAVES -> "num_leaves"
      [] k = LUMP_FACELISTS -> "facelist_count"
      [] k = LUMP_EDGES -> "num_edges"
      [] k = LUMP_SURFEDGES -> "surfedges_count"
      [] OTHER -> "num_models"

\* every field of bsp_t that owns a block
PointerFields ==
    {ArrayField(k) : k \in 0..(BSP_LUMP_COUNT - 1)} \cup {"miptex_dir_offsets", "miptex"}

\* struct bsp_t after the memset of bsp_create
ZeroObject ==
    [f \in PointerFields \cup {CountField(k) : k \in 0..(BSP_LUMP_COUNT - 1)}
        \cup {"miptex_dir_nummiptex"} |-> 0]

Min(a, b) == IF a < b THEN a ELSE b
Max(a, b) == IF a > b THEN a ELSE b

(***************************************************************************)
(* Bytes and integers.                                                     *)
(***************************************************************************)
\* the byte at 0-based index i of a byte sequence (0 outside of it, where no
\* operation reads)
ByteAt(b, i) == IF i >= 0 /\ i < Len(b) THEN b[i + 1] ELSE 0

\* an int32_t loaded from the four bytes at 0-based index i (little endian,
\* two's complement)
LE32(b, i) ==
    LET b3 == ByteAt(b, i + 3)
    IN ByteAt(b, i) + 256 * ByteAt(b, i + 1) + 65536 * ByteAt(b, i + 2)
        + 16777216 * (IF b3 >= 128 THEN b3 - 256 ELSE b3)

\* size_t: four limbs of 16 bits, least significant first
LimbBase == 65536

\* (size_t)n for an int32_t n: sign extension to 64 bits
SizeT(n) ==
    <<n % LimbBase, (n \div LimbBase) % LimbBase,
      IF n < 0 THEN LimbBase - 1 ELSE 0, IF n < 0 THEN LimbBase - 1 ELSE 0>>

\* a * k in size_t for a small k, modulo 2^64
SizeMul(a, k) ==
    LET p1 == a[1] * k
        p2 == a[2] * k + (p1 \div LimbBase)
        p3 == a[3] * k + (p2 \div LimbBase)
        p4 == a[4] * k + (p3 \div LimbBase)
    IN <<p1 % LimbBase, p2 % LimbBase, p3 % LimbBase, p4 % LimbBase>>

\* a + k in size_t for a small k, modulo 2^64
SizeAdd(a, k) ==
    LET p1 == a[1] + k
        p2 == a[2] + (p1 \div LimbBase)
        p3 == a[3] + (p2 \div LimbBase)
        p4 == a[4] + (p3 \div LimbBase)
    IN <<p1 % LimbBase, p2 % LimbBase, p3 % LimbBase, p4 % LimbBase>>

\* a < b in size_t
SizeLess(a, b) ==
    \/ a[4] < b[4]
    \/ a[4] = b[4] /\ a[3] < b[3]
    \/ a[4] = b[4] /\ a[3] = b[3] /\ a[2] < b[2]
    \/ a[4] = b[4] /\ a[3] = b[3] /\ a[2] = b[2] /\ a[1] < b[1]

\* a size_t value no block can have: the request fails in every allocator
HUGE == -1

\* the size_t value as a number of bytes, HUGE from 2^31 on
SizeBytes(a) ==
    IF a[4] = 0 /\ a[3] = 0 /\ a[2] < LimbBase \div 2 THEN a[2] * LimbBase + a[1] ELSE HUGE

(***************************************************************************)
(* The allocator pair of the caller and the machine state the operations   *)
(* work on: s.heap, s.nalloc, s.out, s.pos, s.g are the variables, s.p the *)
(* pointer and s.r the int an operation hands back.                        *)
(***************************************************************************)
Machine == [heap |-> heap, nalloc |-> nalloc, out |-> out, pos |-> fpos, g |-> g,
            p |-> NULL, r |-> 1, data |-> <<>>, trap |-> FALSE]

\* bsp->alloc(size): a fresh block, or NULL on the failing request and for a
\* size no allocator can serve; val is what the block holds
bsp_malloc(s, size, val) ==
    IF s.nalloc + 1 = failAt \/ size = HUGE
    THEN [s EXCEPT !.nalloc = @ + 1, !.p = NULL]
    ELSE [s EXCEPT !.nalloc = @ + 1,
                   !.heap = Append(@, [size |-> size, frees |-> 0, val |-> val]),
                   !.p = Len(s.heap) + 1]

\* nmemb * size bytes, zeroed when the block was obtained
bsp_calloc(s, nmemb, size, zero) ==
    bsp_malloc(s, IF nmemb = HUGE THEN HUGE ELSE nmemb * size, [i \in 1..(IF nmemb = HUGE THEN 0 ELSE nmemb) |-> zero])

\* bsp->free(p) unless p is NULL; the heap counts the calls per block
bsp_free_ptr(s, p) ==
    IF p = NULL THEN s ELSE [s EXCEPT !.heap[p].frees = @ + 1]

alloc_array(s, count, elem_size) ==
    IF count = 0 THEN [s EXCEPT !.p = NULL] ELSE bsp_calloc(s, count, elem_size, 0)

(***************************************************************************)
(* The byte source.                                                        *)
(***************************************************************************)
\* fread(buf, 1, size, fp): the bytes obtained, at most size and at most what
\* the stream still holds; the position advances by as many
fread(s, size) ==
    LET got == Min(size, Max(0, Len(file) - s.pos))
    IN [s EXCEPT !.data = SubSeq(file, s.pos + 1, s.pos + got), !.pos = @ + got]

\* fread returned size
read_exact(s, size) ==
    LET f == fread(s, size) IN [f EXCEPT !.r = IF Len(f.data) = size THEN 1 ELSE 0]

\* 0 for a negative offset or length, else fseek(fp, offset, SEEK_SET) == 0
seek_lump(s, l) ==
    IF l.offset < 0 \/ l.length < 0 THEN [s EXCEPT !.r = 0]
    ELSE [s EXCEPT !.pos = l.offset, !.r = 1]

\* the header a full read of sizeof(bsp_header_t) bytes stores into *hdr
Header(b) ==
    [version |-> LE32(b, 0),
     lumps |-> [k \in 0..(BSP_LUMP_COUNT - 1) |->
                  [offset |-> LE32(b, SizeofInt32 + k * SizeofLump),
                   length |-> LE32(b, SizeofInt32 + k * SizeofLump + SizeofInt32)]]]

\* read_header without the test of the version
read_header_any_version(s) == read_exact(s, SizeofHeader)

\* read_header: 0 when the stream is short or the version is not 29
read_header(s) ==
    LET rd == read_exact(s, SizeofHeader)
    IN IF rd.r = 0 THEN rd
       ELSE [rd EXCEPT !.r = IF Header(rd.data).version # BSP_VERSION THEN 0 ELSE 1]

\* out->header.lumps[k], as the call to read_header left it
Lump(k) == Header(file).lumps[k]

\* read_fixed counting a trailing partial record as a record
read_fixed_rounded_up(s, l, k) ==
    IF l.length <= 0
    THEN [s EXCEPT !.out[ArrayField(k)] = NULL, !.out[CountField(k)] = 0, !.r = 1]
    ELSE LET sk == seek_lump(s, l) IN
         IF sk.r = 0 THEN sk
         ELSE LET count == (l.length + RecordSize(k) - 1) \div RecordSize(k)
                  a == alloc_array(sk, count, RecordSize(k))
                  s1 == [a EXCEPT !.out[ArrayField(k)] = a.p]
              IN IF a.p = NULL /\ count # 0 THEN [s1 EXCEPT !.r = 0]
                 ELSE LET rd == read_exact(s1, count * RecordSize(k)) IN
                      IF rd.r = 0 THEN rd
                      ELSE [rd EXCEPT !.out[CountField(k)] = count, !.r = 1]

(***************************************************************************)
(* Fixed-record lumps and raw byte lumps.                                  *)
(***************************************************************************)
\* the body shared by read_planes, read_vertices, read_nodes, read_texinfo,
\* read_faces, read_clipnodes, read_leaves, read_facelists, read_edges,
\* read_surfedges and read_models
read_fixed(s, l, k) ==
    IF l.length <= 0
    THEN [s EXCEPT !.out[ArrayField(k)] = NULL, !.out[CountField(k)] = 0, !.r = 1]
    ELSE LET sk == seek_lump(s, l) IN
         IF sk.r = 0 THEN sk
         ELSE LET count == l.length \div RecordSize(k)
                  a == alloc_array(sk, count, RecordSize(k))
                  s1 == [a EXCEPT !.out[ArrayField(k)] = a.p]
              IN IF a.p = NULL /\ count # 0 THEN [s1 EXCEPT !.r = 0]
                 ELSE LET rd == read_exact(s1, count * RecordSize(k)) IN
                      IF rd.r = 0 THEN rd
                      ELSE [rd EXCEPT !.out[CountField(k)] = count, !.r = 1]

\* the body shared by read_visdata and read_lighting
read_blob(s, l, k) ==
    IF l.length <= 0
    THEN [s EXCEPT !.out[ArrayField(k)] = NULL, !.out[CountField(k)] = 0, !.r = 1]
    ELSE LET sk == seek_lump(s, l) IN
         IF sk.r = 0 THEN sk
         ELSE LET a == bsp_malloc([sk EXCEPT !.out[CountField(k)] = l.length], l.length, <<>>)
                  s1 == [a EXCEPT !.out[ArrayField(k)] = a.p]
              IN IF a.p = NULL /\ l.length # 0 THEN [s1 EXCEPT !.r = 0]
                 ELSE read_exact(s1, l.length)

(***************************************************************************)
(* The entity text parser.  The cursor p of the C code is a 0-based index  *)
(* into the bytes that start at the text buffer; NULLP is the null         *)
(* pointer.  The buffer holds the L bytes of the lump and the terminator   *)
(* at index L; what lies behind it belongs to other blocks.                *)
(***************************************************************************)
NULLP == -1
\* an indeterminate value: what a block obtained from alloc holds before it
\* is written
JUNK == -2
QUOTE == 34
LBRACE == 123
RBRACE == 125

\* what the byte after the terminator of the text buffer may hold
Garbage == {<<>>, <<LBRACE>>, <<97>>}

\* what the read of *p does when p is the null pointer: it ends the process
\* where no page is mapped at address 0, and yields a zero byte where page 0
\* is readable; a store through the null pointer ends the process on both
NullReads == {"trap", "zero"}

\* isspace in the "C" locale
isspace(c) == c \in {9, 10, 11, 12, 13, 32}

\* *p, where page 0 is readable or p points into buf
CharAt(buf, p) == IF p >= 0 /\ p < Len(buf) THEN buf[p + 1] ELSE 0

RECURSIVE skip_whitespace(_, _)
skip_whitespace(buf, p) ==
    IF CharAt(buf, p) # 0 /\ isspace(CharAt(buf, p)) THEN skip_whitespace(buf, p + 1) ELSE p

\* the loop of parse_string that looks for the closing quote
RECURSIVE scan_quote(_, _)
scan_quote(buf, p) ==
    IF CharAt(buf, p) # 0 /\ CharAt(buf, p) # QUOTE THEN scan_quote(buf, p + 1) ELSE p

\* parse_string: ps.sp is the pointer returned (NULLP for NULL), ps.str the
\* string stored through out
parse_string(ps, p0) ==
    LET p1 == skip_whitespace(ps.buf, p0) IN
    IF CharAt(ps.buf, p1) # QUOTE THEN [ps EXCEPT !.sp = NULLP]
    ELSE LET start == p1 + 1
             e == scan_quote(ps.buf, start)
         IN IF CharAt(ps.buf, e) = 0
            THEN [ps EXCEPT !.sp = NULLP, !.s.g.unterm = TRUE, !.s.g.unterm_props = ps.np]
            ELSE LET a == bsp_malloc(ps.s, (e - start) + 1,
                                     SubSeq(ps.buf, start + 1, e) \o <<0>>)
                 IN IF a.p = NULL THEN [ps EXCEPT !.s = a, !.sp = NULLP]
                    ELSE [ps EXCEPT !.s = a, !.sp = e + 1, !.str = a.p]

\* a new block of new_count elements holding the first old_count elements
\* of old, which is released; NULL, with old untouched, when alloc fails
bsp_realloc_grow(s, old, old_count, new_count, elem_size, junk) ==
    LET a == bsp_malloc(s, new_count * elem_size,
                 [i \in 1..new_count |->
                     IF old # NULL /\ old_count # 0 /\ i <= Min(old_count, new_count)
                     THEN s.heap[old].val[i] ELSE junk])
    IN IF a.p = NULL THEN a ELSE [bsp_free_ptr(a, old) EXCEPT !.p = a.p]

\* a store to base[i] (0-based i); base is not checked against NULL
StoreAt(ps, base, i, v) ==
    IF base = NULL THEN [ps EXCEPT !.st = "fault"]
    ELSE [ps EXCEPT !.s.heap[base].val[i + 1] = v]

\* the loop over the "key" "value" pairs of one block (lines 360-387), in
\* the order of its statements, last first
RECURSIVE prop_loop(_)

\* num_props++; p = skip_whitespace(p) (lines 384-386), after the store
prop_next(w, p) ==
    IF w.st = "fault" THEN w
    ELSE prop_loop([w EXCEPT !.np = @ + 1, !.cur = skip_whitespace(w.buf, p)])

\* the check of the grown array and the store of the pair (lines 377-383)
prop_store(gr, grown, key, val, p) ==
    IF grown /\ gr.props = NULL
    THEN [gr EXCEPT !.s = bsp_free_ptr(gr.s, gr.text), !.st = "fail"]
    ELSE prop_next(StoreAt(gr, gr.props, gr.np, [key |-> key, value |-> val]), p)

\* props = bsp_realloc_grow(...); prop_cap *= 2 (lines 374-376)
prop_grown(v, a) == [v EXCEPT !.s = a, !.props = a.p, !.pcap = @ * 2]

\* after the value: NULL releases the key and leaves the loop with p NULL
\* (lines 367-371), else the array grows when it is full (line 373)
prop_value(v, key) ==
    IF v.sp = NULLP THEN [v EXCEPT !.s = bsp_free_ptr(v.s, key), !.cur = NULLP]
    ELSE prop_store(IF v.np >= v.pcap
                    THEN prop_grown(v, bsp_realloc_grow(v.s, v.props, v.pcap, v.pcap * 2,
                                        SizeofProperty, [key |-> JUNK, value |-> JUNK]))
                    ELSE v,
                    v.np >= v.pcap, key, v.str, v.sp)

\* after the key: NULL leaves the loop with p NULL (lines 363-366)
prop_key(k) ==
    IF k.sp = NULLP THEN [k EXCEPT !.cur = NULLP]
    ELSE prop_value(parse_string([k EXCEPT !.str = NULL], k.sp), k.str)

prop_loop(ps) ==
    IF CharAt(ps.buf, ps.cur) = 0 \/ CharAt(ps.buf, ps.cur) = RBRACE THEN ps
    ELSE prop_key(parse_string([ps EXCEPT !.str = NULL], ps.cur))

\* one block, from the byte after its brace (lines 342-394), last statement
\* first.  The end of the block (lines 388-393): *p is read, with p NULL
\* when parse_string returned NULL
block_end(lp, idx, nullread) ==
    IF lp.st # "run" THEN lp
    ELSE IF lp.cur = NULLP /\ nullread = "trap" THEN [lp EXCEPT !.st = "fault"]
    ELSE StoreAt([lp EXCEPT !.cur = IF CharAt(lp.buf, lp.cur) = RBRACE
                                     THEN lp.cur + 1 ELSE lp.cur],
                 lp.ents, idx, [properties |-> lp.props, num_properties |-> lp.np])

\* props = bsp_calloc(...), unchecked; num_props = 0 (lines 356-358)
block_alloc(e0, a) ==
    [e0 EXCEPT !.s = a, !.props = a.p, !.pcap = PropertyCapacity, !.np = 0]

\* after the stores through ent: the property array and the property loop
\* (lines 356-387)
block_props(e0, idx, nullread) ==
    IF e0.st = "fault" THEN e0
    ELSE block_end(prop_loop(block_alloc(e0, bsp_calloc(e0.s, PropertyCapacity,
                                 SizeofProperty, [key |-> NULL, value |-> NULL]))),
                   idx, nullread)

\* the check of the grown array (lines 347-350); ent = &entities[num_entities++]
\* and its two stores (lines 353-355)
block_entity(gr, grown, nullread) ==
    IF grown /\ gr.ents = NULL
    THEN [gr EXCEPT !.s = bsp_free_ptr(gr.s, gr.text), !.st = "fail"]
    ELSE block_props(StoreAt([gr EXCEPT !.n = @ + 1], gr.ents, gr.n,
                             [properties |-> NULL, num_properties |-> 0]),
                     gr.n, nullread)

\* entities = bsp_realloc_grow(...); capacity *= 2 (lines 344-346)
block_grown(ps, a) == [ps EXCEPT !.s = a, !.ents = a.p, !.cap = @ * 2]

ent_block(ps, nullread) ==
    block_entity(IF ps.n >= ps.cap
                 THEN block_grown(ps, bsp_realloc_grow(ps.s, ps.ents, ps.cap, ps.cap * 2,
                                          SizeofEntity,
                                          [properties |-> JUNK, num_properties |-> JUNK]))
                 ELSE ps,
                 ps.n >= ps.cap, nullread)

\* the loop over the text (lines 339-398); a read at an index above L is a
\* read outside the text buffer
RECURSIVE ent_loop(_, _)
ent_loop(ps, nullread) ==
    IF ps.st # "run" THEN ps
    ELSE
    LET seen == [ps EXCEPT !.s.g.oob = @ \/ ps.cur > ps.L] IN
    IF CharAt(ps.buf, ps.cur) = 0 THEN [seen EXCEPT !.st = "done"]
    ELSE LET q == skip_whitespace(ps.buf, ps.cur) IN
         IF CharAt(ps.buf, q) = LBRACE
         THEN ent_loop(ent_block([seen EXCEPT !.cur = q + 1], nullread), nullread)
         ELSE ent_loop([seen EXCEPT !.cur = q + 1], nullread)

\* read_lump_text: s.p is the buffer (NULL on failure), holding the bytes of
\* the lump and the terminator
read_lump_text(s, l) ==
    LET a == bsp_malloc(s, l.length + 1, <<>>) IN
    IF a.p = NULL THEN a
    ELSE LET f == fread(a, l.length) IN
         IF Len(f.data) # l.length THEN [bsp_free_ptr(f, a.p) EXCEPT !.p = NULL]
         ELSE [f EXCEPT !.heap[a.p].val = f.data \o <<0>>]

\* the end of read_entities (lines 400-405), or the return inside the loop
entities_result(ps) ==
    IF ps.st = "fault" THEN [ps.s EXCEPT !.trap = TRUE]
    ELSE IF ps.st = "fail" THEN [ps.s EXCEPT !.r = 0]
    ELSE [bsp_free_ptr(ps.s, ps.text) EXCEPT
             !.out.entities = ps.ents, !.out.num_entities = ps.n, !.r = 1]

\* entities = bsp_calloc(...), unchecked, and the loop (lines 334-398); text
\* is the buffer
entities_parse(a, text, l, nullread, garbage) ==
    entities_result(
        ent_loop([s |-> a, text |-> text,
                  buf |-> a.heap[text].val \o garbage \o <<0>>,
                  L |-> l.length, cur |-> 0,
                  ents |-> a.p, cap |-> EntityCapacity, n |-> 0,
                  props |-> NULL, pcap |-> 0, np |-> 0,
                  sp |-> 0, str |-> NULL, st |-> "run"], nullread))

\* after read_lump_text (lines 329-333)
entities_text(t, l, nullread, garbage) ==
    IF t.p = NULL THEN [t EXCEPT !.r = 0]
    ELSE entities_parse(bsp_calloc(t, EntityCapacity, SizeofEntity,
                                   [properties |-> NULL, num_properties |-> 0]),
                        t.p, l, nullread, garbage)

\* after seek_lump (lines 324-328)
entities_seek(sk, l, nullread, garbage) ==
    IF sk.r = 0 THEN sk ELSE entities_text(read_lump_text(sk, l), l, nullread, garbage)

read_entities(s, l, nullread, garbage) ==
    IF l.length <= 0
    THEN [s EXCEPT !.out.entities = NULL, !.out.num_entities = 0, !.r = 1]
    ELSE entities_seek(seek_lump(s, l), l, nullread, garbage)

(***************************************************************************)
(* Teardown.                                                               *)
(***************************************************************************)
\* the frees of free_entities for the properties j..n of one entity
RECURSIVE free_props(_, _, _, _)
free_props(s, props, j, n) ==
    IF j > n THEN s
    ELSE LET prop == s.heap[props].val[j] IN
         free_props(bsp_free_ptr(bsp_free_ptr(s, prop.key), prop.value), props, j + 1, n)

\* the loop of free_entities over the entities i..
RECURSIVE free_ents(_, _)
free_ents(s, i) ==
    IF i > s.out.num_entities THEN s
    ELSE LET ent == s.heap[s.out.entities].val[i] IN
         IF ent.properties # NULL
         THEN free_ents(bsp_free_ptr(free_props(s, ent.properties, 1, ent.num_properties),
                                     ent.properties), i + 1)
         ELSE free_ents(s, i + 1)

\* free_entities releasing the arrays but not the key and value strings
free_entities_shallow(s) ==
    IF s.out.entities = NULL THEN s
    ELSE LET arr == s.heap[s.out.entities].val
             RECURSIVE props_only(_, _)
             props_only(m, i) ==
                 IF i > s.out.num_entities THEN m
                 ELSE props_only(bsp_free_ptr(m, arr[i].properties), i + 1)
         IN [bsp_free_ptr(props_only(s, 1), s.out.entities) EXCEPT
                !.out.entities = NULL, !.out.num_entities = 0]

free_entities(s) ==
    IF s.out.entities = NULL THEN s
    ELSE [bsp_free_ptr(free_ents(s, 1), s.out.entities) EXCEPT
             !.out.entities = NULL, !.out.num_entities = 0]

\* the pointers bsp_cleanup passes to bsp_free_ptr after free_entities, in
\* the order of the calls
CleanupOrder ==
    <<"planes", "miptex_raw", "miptex_dir_offsets", "miptex", "vertices", "visdata_data",
      "nodes", "texinfo", "faces", "lighting_data", "clipnodes", "leaves",
      "facelist_indices", "edges", "surfedges_indices", "models">>

RECURSIVE free_fields(_, _)
free_fields(s, fields) ==
    IF fields = <<>> THEN s
    ELSE free_fields(bsp_free_ptr(s, s.out[Head(fields)]), Tail(fields))

\* g.cleanups counts the calls
bsp_cleanup(s) ==
    [free_fields(free_entities(s), CleanupOrder) EXCEPT !.g.cleanups = @ + 1]

(***************************************************************************)
(* The miptexture directory.                                               *)
(***************************************************************************)
\* a bsp_miptex_t*: the block and the byte offset in it; no block for NULL
NullView == <<NULL, 0>>

\* dir_size without the offsets: the count word alone
dir_size_count_only(nummiptex) == SizeT(SizeofInt32)

\* sizeof(int32_t) + (size_t)nummiptex * sizeof(int32_t)
dir_size(nummiptex) == SizeAdd(SizeMul(SizeT(nummiptex), SizeofInt32), SizeofInt32)

\* miptex_view without the test that the header ends inside the blob
miptex_view_unfitted(raw, raw_size, off) ==
    IF off <= 0 THEN NullView
    ELSE IF off >= raw_size THEN NullView
    ELSE <<raw, off>>

\* bsp->miptex[i] for the directory offset off (lines 520-536)
miptex_view(raw, raw_size, off) ==
    IF off <= 0 THEN NullView
    ELSE IF off >= raw_size THEN NullView
    ELSE IF off + SizeofMiptex > raw_size THEN NullView
    ELSE <<raw, off>>

read_miptex(s, l) ==
    IF l.length <= 0
    THEN [s EXCEPT !.out.miptex_raw = NULL, !.out.miptex_raw_size = 0,
                   !.out.miptex_dir_nummiptex = 0, !.out.miptex_dir_offsets = NULL,
                   !.out.miptex = NULL, !.r = 1]
    ELSE LET sk == seek_lump(s, l) IN
         IF sk.r = 0 THEN sk
         ELSE
         LET size == l.length
             a == bsp_malloc([sk EXCEPT !.out.miptex_raw_size = size], size, <<>>)
             s1 == [a EXCEPT !.out.miptex_raw = a.p]
         IN IF a.p = NULL THEN [s1 EXCEPT !.r = 0]
            ELSE
            LET rd == read_exact(s1, size)
                s2 == [rd EXCEPT !.heap[a.p].val = rd.data]
                raw == rd.data
            IN IF rd.r = 0 THEN s2
               ELSE IF size < SizeofInt32 THEN [s2 EXCEPT !.r = 0]
               ELSE
               LET nummiptex == LE32(raw, 0) IN
               IF SizeLess(SizeT(size), dir_size(nummiptex)) THEN [s2 EXCEPT !.r = 0]
               ELSE
               LET count == SizeBytes(SizeT(nummiptex))
                   o == bsp_malloc([s2 EXCEPT !.out.miptex_dir_nummiptex = nummiptex],
                                   SizeBytes(SizeMul(SizeT(nummiptex), SizeofInt32)),
                                   [i \in 1..nummiptex |-> LE32(raw, SizeofInt32 * i)])
                   s3 == [o EXCEPT !.out.miptex_dir_offsets = o.p]
               IN IF o.p = NULL /\ nummiptex # 0 THEN [s3 EXCEPT !.r = 0]
                  ELSE
                  LET m == bsp_calloc(s3, count, SizeofPointer, NullView)
                      s4 == [m EXCEPT !.out.miptex = m.p]
                  IN IF m.p = NULL /\ nummiptex # 0 THEN [s4 EXCEPT !.r = 0]
                     ELSE IF m.p = NULL THEN [s4 EXCEPT !.r = 1]
                     ELSE [s4 EXCEPT !.heap[m.p].val =
                              [i \in 1..nummiptex |->
                                  miptex_view(a.p, size, LE32(raw, SizeofInt32 * i))],
                              !.r = 1]

(***************************************************************************)
(* The lump decoders by name.                                              *)
(***************************************************************************)
read_planes(s, l) == read_fixed(s, l, LUMP_PLANES)
read_vertices(s, l) == read_fixed(s, l, LUMP_VERTICES)
read_visdata(s, l) == read_blob(s, l, LUMP_VISDATA)
read_nodes(s, l) == read_fixed(s, l, LUMP_NODES)
read_texinfo(s, l) == read_fixed(s, l, LUMP_TEXINFO)
read_faces(s, l) == read_fixed(s, l, LUMP_FACES)
read_lighting(s, l) == read_blob(s, l, LUMP_LIGHTING)
read_clipnodes(s, l) == read_fixed(s, l, LUMP_CLIPNODES)
read_leaves(s, l) == read_fixed(s, l, LUMP_LEAVES)
read_facelists(s, l) == read_fixed(s, l, LUMP_FACELISTS)
read_edges(s, l) == read_fixed(s, l, LUMP_EDGES)
read_surfedges(s, l) == read_fixed(s, l, LUMP_SURFEDGES)
read_models(s, l) == read_fixed(s, l, LUMP_MODELS)

(***************************************************************************)
(* The accessors.                                                          *)
(***************************************************************************)
bsp_num_entities == IF bsp = NULL THEN 0 ELSE out.num_entities
bsp_num_vertices == IF bsp = NULL THEN 0 ELSE out.num_vertices
bsp_num_planes == IF bsp = NULL THEN 0 ELSE out.num_planes
bsp_num_faces == IF bsp = NULL THEN 0 ELSE out.num_faces
bsp_num_edges == IF bsp = NULL THEN 0 ELSE out.num_edges
bsp_num_models == IF bsp = NULL THEN 0 ELSE out.num_models
bsp_visdata_size == IF bsp = NULL THEN 0 ELSE out.visdata_size
bsp_lighting_size == IF bsp = NULL THEN 0 ELSE out.lighting_size
bsp_miptex_count == IF bsp = NULL THEN 0 ELSE out.miptex_dir_nummiptex

\* the entity accessors; entity_index and prop_index are size_t, 0-based
bsp_entity_num_properties(entity_index) ==
    IF bsp = NULL THEN 0
    ELSE IF entity_index >= out.num_entities THEN 0
    ELSE heap[out.entities].val[entity_index + 1].num_properties

\* the properties array of a valid entity
EntityProperties(entity_index) ==
    heap[heap[out.entities].val[entity_index + 1].properties].val

bsp_entity_property_key(entity_index, prop_index) ==
    IF bsp = NULL THEN NULL
    ELSE IF entity_index >= out.num_entities THEN NULL
    ELSE IF prop_index >= bsp_entity_num_properties(entity_index) THEN NULL
    ELSE EntityProperties(entity_index)[prop_index + 1].key

bsp_entity_property_value(entity_index, prop_index) ==
    IF bsp = NULL THEN NULL
    ELSE IF entity_index >= out.num_entities THEN NULL
    ELSE IF prop_index >= bsp_entity_num_properties(entity_index) THEN NULL
    ELSE EntityProperties(entity_index)[prop_index + 1].value

\* the C string a block holds: its bytes up to the first zero
RECURSIVE strlen(_, _)
strlen(b, n) == IF n >= Len(b) \/ b[n + 1] = 0 THEN n ELSE strlen(b, n + 1)
CString(ptr) == SubSeq(heap[ptr].val, 1, strlen(heap[ptr].val, 0))

\* the loop of bsp_entity_get_property from property i on; key is the bytes
\* of a non-null C string
RECURSIVE get_property_from(_, _, _)
get_property_from(entity_index, key, i) ==
    IF i >= bsp_entity_num_properties(entity_index) THEN NULL
    ELSE IF /\ EntityProperties(entity_index)[i + 1].key # NULL
            /\ CString(EntityProperties(entity_index)[i + 1].key) = key
         THEN EntityProperties(entity_index)[i + 1].value
    ELSE get_property_from(entity_index, key, i + 1)

\* bsp_entity_get_property returning the last property of that key
RECURSIVE get_property_last(_, _, _)
get_property_last(entity_index, key, i) ==
    IF i < 0 THEN NULL
    ELSE IF /\ EntityProperties(entity_index)[i + 1].key # NULL
            /\ CString(EntityProperties(entity_index)[i + 1].key) = key
         THEN EntityProperties(entity_index)[i + 1].value
    ELSE get_property_last(entity_index, key, i - 1)
bsp_entity_get_property_last(entity_index, key) ==
    IF bsp = NULL THEN NULL
    ELSE IF entity_index >= out.num_entities THEN NULL
    ELSE get_property_last(entity_index, key, bsp_entity_num_properties(entity_index) - 1)

bsp_entity_get_property(entity_index, key) ==
    IF bsp = NULL THEN NULL
    ELSE IF entity_index >= out.num_entities THEN NULL
    ELSE get_property_from(entity_index, key, 0)

(***************************************************************************)
(* The streams the model loads.                                            *)
(***************************************************************************)
\* the four bytes an int32_t is stored in
LE32Bytes(n) ==
    <<n % 256, (n \div 256) % 256, (n \div 65536) % 256, (n \div 16777216) % 256>>

\* the bytes of a bsp_header_t
HeaderBytes(version, lumps) ==
    [i \in 1..SizeofHeader |->
        LET w == (i - 1) \div SizeofInt32
            n == IF w = 0 THEN version
                 ELSE IF (w - 1) % 2 = 0 THEN lumps[(w - 1) \div 2].offset
                 ELSE lumps[(w - 1) \div 2].length
        IN LE32Bytes(n)[((i - 1) % SizeofInt32) + 1]]

Zeros(n) == [i \in 1..n |-> 0]

\* the stream: header, entity text, miptexture blob, and zero bytes up to a
\* payload of at least pad bytes
MkFile(version, lumps, text, blob, pad) ==
    HeaderBytes(version, lumps) \o text \o blob \o Zeros(Max(0, pad - Len(text) - Len(blob)))

Absent == [offset |-> 0, length |-> 0]

\* entity texts
Alphabet == {LBRACE, RBRACE, QUOTE, 32, 97}
ShortTexts == UNION {[1..m -> Alphabet] : m \in 0..MaxTextLen}
Pair == <<QUOTE, 97, QUOTE, 32, QUOTE, QUOTE>>
RECURSIVE Repeat(_, _)
Repeat(x, n) == IF n = 0 THEN <<>> ELSE x \o Repeat(x, n - 1)
\* {"classname" "light" "origin" "0 0 0"}
Classname == <<99, 108, 97, 115, 115, 110, 97, 109, 101>>
Light == <<108, 105, 103, 104, 116>>
Origin == <<111, 114, 105, 103, 105, 110>>
Zero3 == <<48, 32, 48, 32, 48>>
Quoted(str) == <<QUOTE>> \o str \o <<QUOTE>>
LightText ==
    <<LBRACE>> \o Quoted(Classname) \o <<32>> \o Quoted(Light) \o <<32>>
               \o Quoted(Origin) \o <<32>> \o Quoted(Zero3) \o <<RBRACE>>
LongTexts ==
    {LightText,
     Repeat(<<LBRACE, RBRACE>>, EntityCapacity + 1),
     Repeat(<<LBRACE, RBRACE, 10>>, EntityCapacity) \o <<LBRACE>> \o Pair \o <<RBRACE>>,
     <<LBRACE>> \o Repeat(Pair, PropertyCapacity + 1) \o <<RBRACE>>,
     <<LBRACE>> \o Repeat(Pair, PropertyCapacity + 1),
     <<LBRACE>> \o Pair \o <<RBRACE, 10, LBRACE, 10>> \o Pair \o Pair \o <<RBRACE, 10>>}

\* miptexture blobs: a count, MaxMipCount offsets, zero bytes; cut at size
DirBytes == SizeofInt32 + SizeofInt32 * MaxMipCount
BlobSizes == {3, SizeofInt32, DirBytes - SizeofInt32, DirBytes, DirBytes + SizeofMiptex}
BlobOffsets == {-1, 0, DirBytes, DirBytes + 1, 9999999}
BlobCounts == (-2..MaxMipCount) \cup {1073741824}
RECURSIVE Flatten(_)
Flatten(ss) == IF ss = <<>> THEN <<>> ELSE Head(ss) \o Flatten(Tail(ss))
MkBlob(n, offs, size) ==
    SubSeq(LE32Bytes(n) \o Flatten([i \in 1..Len(offs) |-> LE32Bytes(offs[i])])
              \o Zeros(SizeofMiptex), 1, size)
Blobs ==
    {MkBlob(n, offs, size) : n \in BlobCounts, offs \in [1..MaxMipCount -> BlobOffsets],
                             size \in BlobSizes}

\* the payload every stream of the model has at least
PadLen == 66

\* descriptors of lump k in a stream of len bytes
GoodLump(k) == [offset |-> SizeofHeader, length |-> RecordSize(k) + 1]
BadLumps(k, len) ==
    {[offset |-> SizeofHeader, length |-> -1],
     [offset |-> -4, length |-> RecordSize(k) + 1],
     [offset |-> -4, length |-> -4],
     [offset |-> len - RecordSize(k), length |-> RecordSize(k) + 1],
     [offset |-> len - RecordSize(k) + 1, length |-> RecordSize(k) + 1],
     [offset |-> len + 8, length |-> RecordSize(k) + 1],
     [offset |-> SizeofHeader, length |-> len],
     [offset |-> SizeofHeader, length |-> 2 * RecordSize(k)]}

TextLump(text) == [offset |-> SizeofHeader, length |-> Len(text)]
BlobLump(text, blob) == [offset |-> SizeofHeader + Len(text), length |-> Len(blob)]

SampleText == <<LBRACE>> \o Pair \o <<RBRACE>>
SampleBlob == MkBlob(1, <<SizeofInt32 * 2>>, SizeofInt32 * 2 + SizeofMiptex)

\* streams with one text and nothing else
TextFiles ==
    {MkFile(BSP_VERSION,
            [k \in 0..(BSP_LUMP_COUNT - 1) |-> IF k = LUMP_ENTITIES THEN TextLump(t) ELSE Absent],
            t, <<>>, PadLen) : t \in ShortTexts}

LongTextFiles ==
    {MkFile(BSP_VERSION,
            [k \in 0..(BSP_LUMP_COUNT - 1) |->
                IF k = LUMP_ENTITIES THEN TextLump(t)
                ELSE IF k = LUMP_PLANES THEN GoodLump(k) ELSE Absent],
            t, <<>>, PadLen) : t \in LongTexts}

\* streams with one miptexture blob and one planes lump
BlobFiles ==
    {MkFile(BSP_VERSION,
            [k \in 0..(BSP_LUMP_COUNT - 1) |->
                IF k = LUMP_MIPTEX THEN BlobLump(<<>>, b)
                ELSE IF k = LUMP_PLANES THEN [offset |-> SizeofHeader, length |-> RecordSize(k)]
                ELSE Absent],
            <<>>, b, PadLen) : b \in Blobs}

\* streams with every lump present, or none, but for one lump
FullLen == SizeofHeader + Max(PadLen, Len(SampleText) + Len(SampleBlob))
FullLumps ==
    [k \in 0..(BSP_LUMP_COUNT - 1) |->
        IF k = LUMP_ENTITIES THEN TextLump(SampleText)
        ELSE IF k = LUMP_MIPTEX THEN BlobLump(SampleText, SampleBlob)
        ELSE GoodLump(k)]
LumpFiles ==
    UNION {{MkFile(BSP_VERSION, [base EXCEPT ![k] = d], SampleText, SampleBlob, PadLen) :
               base \in {FullLumps, [j \in 0..(BSP_LUMP_COUNT - 1) |-> Absent]},
               d \in BadLumps(k, FullLen) \cup {Absent, GoodLump(k)}} :
           k \in 0..(BSP_LUMP_COUNT - 1)}

\* streams whose header is short or of another version
HeaderFiles ==
    {MkFile(v, FullLumps, SampleText, SampleBlob, PadLen) : v \in {28, 30, -1, 0}}
    \cup {SubSeq(MkFile(BSP_VERSION, FullLumps, <<>>, <<>>, 0), 1, n) :
             n \in {0, 3, SizeofHeader - 1}}

(***************************************************************************)
(* The caller: bsp_create, bsp_load_file, bsp_destroy.                     *)
(***************************************************************************)
NoObservation == [oob |-> FALSE, unterm |-> FALSE, unterm_props |-> 0, cleanups |-> 0]

InitWith(files, fails) ==
    /\ file \in files
    /\ failAt \in fails
    /\ pc = "start"
    /\ next = 0
    /\ bsp = NULL
    /\ out = ZeroObject
    /\ heap = <<>>
    /\ nalloc = 0
    /\ fpos = 0
    /\ ret = -1
    /\ g = NoObservation
    /\ loads = 0
    /\ runs = <<>>

Init ==
    \/ InitWith(TextFiles, 0..MaxFailAt)
    \/ InitWith(LongTextFiles \cup LumpFiles, 0..MaxFailAtLong)
    \/ InitWith(BlobFiles \cup HeaderFiles, 0..Min(MaxFailAt, 5))

\* the variables take the state the operation left
Commit(s) ==
    /\ heap' = s.heap
    /\ nalloc' = s.nalloc
    /\ out' = s.out
    /\ fpos' = s.pos
    /\ g' = s.g

\* sizeof(bsp_t)
SizeofBsp == 408

\* bsp_create: NULL when alloc fails, else a zeroed object
bsp_create ==
    /\ pc = "start"
    /\ LET a == bsp_malloc(Machine, SizeofBsp, <<>>) IN
       /\ bsp' = a.p
       /\ Commit([a EXCEPT !.out = ZeroObject])
    /\ pc' = "created"
    /\ UNCHANGED <<file, failAt, next, ret, loads, runs>>

\* the stream as the caller hands it to bsp_load_file: positioned at its
\* start
AtStart(s) == [s EXCEPT !.pos = 0]

\* bsp_load_file up to the return of read_header, on a new object or on one
\* that holds a loaded level
LoadHeader ==
    /\ pc = "created" \/ (pc = "returned" /\ ret = 1 /\ loads < MaxLoads)
    /\ IF bsp = NULL
       THEN /\ ret' = 0
            /\ pc' = "returned"
            /\ UNCHANGED <<heap, nalloc, out, fpos, g>>
       ELSE LET h == read_header(AtStart(Machine)) IN
            /\ Commit(h)
            /\ ret' = IF h.r = 0 THEN 0 ELSE -1
            /\ pc' = IF h.r = 0 THEN "returned" ELSE "loading"
    /\ next' = 0
    /\ loads' = loads + 1
    /\ runs' = <<>>
    /\ UNCHANGED <<file, failAt, bsp>>

\* AfterDecoder going on to the next decoder whatever the result
AfterDecoder_unchecked(k, res) ==
    /\ Commit(res)
    /\ pc' = IF res.trap THEN "fault"
             ELSE IF k = BSP_LUMP_COUNT - 1 THEN "returned" ELSE "loading"
    /\ next' = IF res.trap THEN k ELSE k + 1
    /\ ret' = IF ~res.trap /\ k = BSP_LUMP_COUNT - 1 THEN 1 ELSE ret
    /\ runs' = Append(runs, k)
    /\ UNCHANGED <<file, failAt, bsp, loads>>

\* what bsp_load_file does with the result of the decoder of lump k: the
\* next decoder, or bsp_cleanup and return 0, or return 1 after the last
AfterDecoder(k, res) ==
    LET c == IF res.trap \/ res.r # 0 THEN res ELSE bsp_cleanup(res) IN
    /\ Commit(c)
    /\ pc' = IF c.trap THEN "fault"
             ELSE IF res.r = 0 \/ k = BSP_LUMP_COUNT - 1 THEN "returned" ELSE "loading"
    /\ next' = IF ~c.trap /\ res.r # 0 THEN k + 1 ELSE k
    /\ ret' = IF c.trap THEN ret
              ELSE IF res.r = 0 THEN 0
              ELSE IF k = BSP_LUMP_COUNT - 1 THEN 1 ELSE ret
    /\ runs' = Append(runs, k)
    /\ UNCHANGED <<file, failAt, bsp, loads>>

AtLump(k) == pc = "loading" /\ next = k

ReadEntities ==
    /\ AtLump(LUMP_ENTITIES)
    /\ \E nullread \in NullReads, garbage \in Garbage :
          AfterDecoder(LUMP_ENTITIES,
                       read_entities(Machine, Lump(LUMP_ENTITIES), nullread, garbage))
ReadPlanes ==
    /\ AtLump(LUMP_PLANES)
    /\ AfterDecoder(LUMP_PLANES, read_planes(Machine, Lump(LUMP_PLANES)))
ReadMiptex ==
    /\ AtLump(LUMP_MIPTEX)
    /\ AfterDecoder(LUMP_MIPTEX, read_miptex(Machine, Lump(LUMP_MIPTEX)))
ReadVertices ==
    /\ AtLump(LUMP_VERTICES)
    /\ AfterDecoder(LUMP_VERTICES, read_vertices(Machine, Lump(LUMP_VERTICES)))
ReadVisdata ==
    /\ AtLump(LUMP_VISDATA)
    /\ AfterDecoder(LUMP_VISDATA, read_visdata(Machine, Lump(LUMP_VISDATA)))
ReadNodes ==
    /\ AtLump(LUMP_NODES)
    /\ AfterDecoder(LUMP_NODES, read_nodes(Machine, Lump(LUMP_NODES)))
ReadTexinfo ==
    /\ AtLump(LUMP_TEXINFO)
    /\ AfterDecoder(LUMP_TEXINFO, read_texinfo(Machine, Lump(LUMP_TEXINFO)))
ReadFaces ==
    /\ AtLump(LUMP_FACES)
    /\ AfterDecoder(LUMP_FACES, read_faces(Machine, Lump(LUMP_FACES)))
ReadLighting ==
    /\ AtLump(LUMP_LIGHTING)
    /\ AfterDecoder(LUMP_LIGHTING, read_lighting(Machine, Lump(LUMP_LIGHTING)))
ReadClipnodes ==
    /\ AtLump(LUMP_CLIPNODES)
    /\ AfterDecoder(LUMP_CLIPNODES, read_clipnodes(Machine, Lump(LUMP_CLIPNODES)))
ReadLeaves ==
    /\ AtLump(LUMP_LEAVES)
    /\ AfterDecoder(LUMP_LEAVES, read_leaves(Machine, Lump(LUMP_LEAVES)))
ReadFacelists ==
    /\ AtLump(LUMP_FACELISTS)
    /\ AfterDecoder(LUMP_FACELISTS, read_facelists(Machine, Lump(LUMP_FACELISTS)))
ReadEdges ==
    /\ AtLump(LUMP_EDGES)
    /\ AfterDecoder(LUMP_EDGES, read_edges(Machine, Lump(LUMP_EDGES)))
ReadSurfedges ==
    /\ AtLump(LUMP_SURFEDGES)
    /\ AfterDecoder(LUMP_SURFEDGES, read_surfedges(Machine, Lump(LUMP_SURFEDGES)))
ReadModels ==
    /\ AtLump(LUMP_MODELS)
    /\ AfterDecoder(LUMP_MODELS, read_models(Machine, Lump(LUMP_MODELS)))

\* bsp_destroy: nothing for NULL, else bsp_cleanup and the release of *bsp
bsp_destroy ==
    /\ pc \in {"created", "returned"}
    /\ IF bsp = NULL
       THEN /\ pc' = "destroyed"
            /\ UNCHANGED <<heap, nalloc, out, fpos, g>>
       ELSE /\ Commit(bsp_free_ptr(bsp_cleanup(Machine), bsp))
            /\ pc' = "destroyed"
    /\ UNCHANGED <<file, failAt, next, bsp, ret, loads, runs>>

Next ==
    \/ bsp_create
    \/ LoadHeader
    \/ ReadEntities
    \/ ReadPlanes
    \/ ReadMiptex
    \/ ReadVertices
    \/ ReadVisdata
    \/ ReadNodes
    \/ ReadTexinfo
    \/ ReadFaces
    \/ ReadLighting
    \/ ReadClipnodes
    \/ ReadLeaves
    \/ ReadFacelists
    \/ ReadEdges
    \/ ReadSurfedges
    \/ ReadModels
    \/ bsp_destroy

Spec == Init /\ [][Next]_vars

(***************************************************************************)
(* Properties.                                                             *)
(***************************************************************************)
Lumps == 0..(BSP_LUMP_COUNT - 1)
Blocks == 1..Len(heap)
\* the blocks bsp_load_file obtained: all but the object itself
LoadBlocks == 2..Len(heap)
\* read_header accepted the stream
HeaderOK == Len(file) >= SizeofHeader /\ Header(file).version = BSP_VERSION
\* bsp_load_file ran the decoders and returned
Loaded == pc = "returned" /\ bsp # NULL /\ HeaderOK
\* the bytes the stream holds from offset on
Available(offset) == Max(0, Len(file) - offset)
\* request number failAt was made during bsp_load_file and got NULL
AllocFailedInLoad == failAt >= 2 /\ nalloc >= failAt
FixedLumps == Lumps \ {LUMP_ENTITIES, LUMP_MIPTEX, LUMP_VISDATA, LUMP_LIGHTING}

\* C1: after bsp_load_file returned failure every count the accessors report
\* is zero and no pointer field of the object refers to a released block.
C1_NoPartialResult ==
    (pc = "returned" /\ ret = 0) =>
        /\ bsp_num_entities = 0 /\ bsp_num_planes = 0 /\ bsp_num_vertices = 0
        /\ bsp_num_faces = 0 /\ bsp_num_edges = 0 /\ bsp_num_models = 0
        /\ bsp_visdata_size = 0 /\ bsp_lighting_size = 0 /\ bsp_miptex_count = 0
        /\ \A f \in PointerFields : out[f] = NULL \/ heap[out[f]].frees = 0

\* C2: after bsp_create, a bsp_load_file that failed with memory allocated,
\* and bsp_destroy, every block was passed to the free function exactly once
\* (stated for the allocator that serves every request).
C2_TeardownIdempotent ==
    (pc = "destroyed" /\ ret = 0 /\ Len(heap) > 1 /\ failAt = 0) =>
        \A b \in Blocks : heap[b].frees = 1

\* C3: after bsp_create, one successful bsp_load_file and bsp_destroy, every
\* block obtained from the allocator was passed to the free function exactly
\* once.
C3_DestroyReleasesOnce ==
    (pc = "destroyed" /\ ret = 1 /\ loads = 1) => \A b \in Blocks : heap[b].frees = 1

\* a successful load that grew the entity array and a property array, then
\* bsp_destroy
C3_Witness ==
    /\ pc = "destroyed" /\ ret = 1 /\ loads = 1
    /\ \E b \in Blocks : heap[b].size = 2 * EntityCapacity * SizeofEntity
    /\ \E b \in Blocks : heap[b].size = SizeofProperty * PropertyCapacity /\ heap[b].frees = 1
    /\ \E b \in Blocks : heap[b].size = RecordSize(LUMP_PLANES)

\* C4: a lump descriptor with a negative length, or with a negative offset
\* and a non-zero length, makes bsp_load_file return failure with every
\* block of the lumps decoded before it released.
C4_BadDescriptorFails ==
    (Loaded /\ \E k \in Lumps :
                  \/ Lump(k).length < 0
                  \/ Lump(k).offset < 0 /\ Lump(k).length # 0) =>
        /\ ret = 0
        /\ \A b \in LoadBlocks : heap[b].frees >= 1

\* C5: the entity parser reads no byte of the text buffer at an index above
\* the terminator.
C5_CursorStopsAtTerminator == ~g.oob

\* C6: a quoted string without closing quote inside a block neither faults
\* nor fails the load; the entity keeps the properties parsed before the
\* pair and the scan of the block stops.
C6_UnterminatedQuoteKept ==
    (g.unterm /\ failAt = 0) =>
        /\ pc # "fault"
        /\ (pc = "loading" /\ next = LUMP_PLANES) =>
              /\ out.num_entities >= 1
              /\ heap[out.entities].val[out.num_entities].num_properties = g.unterm_props

\* C7: when alloc returns NULL during bsp_load_file, the call returns
\* failure without a null dereference and every block the load obtained
\* before is released.
C7_AllocFailureIsClean ==
    (AllocFailedInLoad /\ pc # "destroyed") =>
        /\ pc = "returned"
        /\ ret = 0
        /\ \A b \in LoadBlocks : heap[b].frees >= 1

\* C8: a lump of positive length of which the stream holds fewer
\* than length bytes from its offset on makes bsp_load_file return failure.
C8_ShortLumpFails ==
    (Loaded /\ \E k \in Lumps :
                  /\ Lump(k).length > 0
                  /\ Lump(k).offset >= 0
                  /\ Available(Lump(k).offset) < Lump(k).length) =>
        ret = 0

\* the miptexture lump as the stream holds it
MipLump == Lump(LUMP_MIPTEX)
\* the count and the offsets the first bytes of the lump give
MipCount == LE32(file, MipLump.offset)
MipOffset(i) == LE32(file, MipLump.offset + SizeofInt32 * (i + 1))

\* C9: after a successful load of a miptexture lump of size S and count N,
\* view i is null exactly when offset i is <= 0, >= S or > S - 40, and is
\* the address of blob byte offset i otherwise; the decoder fails only for a
\* short read, a truncated directory or an allocation failure, never for an
\* offset.
C9_ViewsFollowOffsets ==
    /\ (Loaded /\ ret = 1 /\ MipLump.length > 0) =>
          /\ out.miptex_dir_nummiptex = MipCount
          /\ MipCount > 0 =>
                /\ Len(heap[out.miptex].val) = MipCount
                /\ Len(heap[out.miptex_dir_offsets].val) = MipCount
          /\ \A i \in 0..(MipCount - 1) :
                LET off == MipOffset(i) IN
                /\ heap[out.miptex_dir_offsets].val[i + 1] = off
                /\ heap[out.miptex].val[i + 1] =
                      IF off <= 0 \/ off >= MipLump.length
                            \/ off + 40 > MipLump.length
                      THEN <<NULL, 0>> ELSE <<out.miptex_raw, off>>
    /\ (Loaded /\ ret = 0 /\ next = LUMP_MIPTEX /\ MipLump.length > 0) =>
          \/ MipLump.offset < 0
          \/ Available(MipLump.offset) < MipLump.length
          \/ MipLump.length < 4
          \/ MipCount < 0
          \/ (MipLump.length \div 4) - 1 < MipCount
          \/ AllocFailedInLoad

\* the load of a directory of two offsets, -1 and 9999999, succeeded with two
\* null views
C9_Witness ==
    /\ Loaded /\ ret = 1 /\ MipLump.length > 0
    /\ MipCount = 2
    /\ MipOffset(0) = -1 /\ MipOffset(1) = 9999999
    /\ heap[out.miptex].val = <<(<<NULL, 0>>), (<<NULL, 0>>)>>

\* C10: a miptexture lump of positive size S and count N with S < 4 or
\* S < 4 + 4 * N makes bsp_load_file return failure, and no offset or view
\* array is built.
C10_TruncatedDirectoryFails ==
    (/\ Loaded
     /\ MipLump.length > 0
     /\ MipLump.offset >= 0
     /\ \/ MipLump.length < 4
        \/ /\ Available(MipLump.offset) >= 4
           /\ (MipLump.length \div 4) - 1 < MipCount) =>
        /\ ret = 0
        /\ out.miptex_dir_offsets = NULL
        /\ out.miptex = NULL

\* the miptexture decoder read the whole lump and failed on a directory of
\* two offsets in a blob of eight bytes
C10_Witness ==
    /\ Loaded /\ ret = 0 /\ failAt = 0 /\ next = LUMP_MIPTEX
    /\ MipLump.length = 8
    /\ Available(MipLump.offset) >= 8
    /\ MipCount = 2
    /\ out.miptex_raw # NULL

(***************************************************************************)
(* The entities a text of blocks denotes, read off the text itself: a      *)
(* sequence of blocks, each a sequence of <<key, value>> pairs.  The texts  *)
(* in scope are blocks of complete pairs of complete quoted strings, with   *)
(* whitespace only before a quoted string, before the brace that closes a   *)
(* block with pairs, and between blocks.                                    *)
(***************************************************************************)
OutOfScope == [ok |-> FALSE]

\* the first index from i on that holds no whitespace (Len(t) + 1 if none)
RECURSIVE SkipWs(_, _)
SkipWs(t, i) == IF i <= Len(t) /\ isspace(t[i]) THEN SkipWs(t, i + 1) ELSE i

\* the index of the first quote from i on (Len(t) + 1 if none)
RECURSIVE FindQuote(_, _)
FindQuote(t, i) == IF i <= Len(t) /\ t[i] # QUOTE THEN FindQuote(t, i + 1) ELSE i

\* the pairs of a block from index i on, after the pairs acc
RECURSIVE TextPairs(_, _, _)
TextValue(t, acc, key, j) ==
    IF j > Len(t) \/ t[j] # QUOTE \/ FindQuote(t, j + 1) > Len(t) THEN OutOfScope
    ELSE TextPairs(t, FindQuote(t, j + 1) + 1,
                   Append(acc, <<key, SubSeq(t, j + 1, FindQuote(t, j + 1) - 1)>>))
TextKey(t, i, acc, j) ==
    IF j > Len(t) THEN OutOfScope
    ELSE IF t[j] = RBRACE
         THEN IF j > i /\ acc = <<>> THEN OutOfScope
              ELSE [ok |-> TRUE, props |-> acc, nxt |-> j + 1]
    ELSE IF t[j] # QUOTE \/ FindQuote(t, j + 1) > Len(t) THEN OutOfScope
    ELSE TextValue(t, acc, SubSeq(t, j + 1, FindQuote(t, j + 1) - 1),
                   SkipWs(t, FindQuote(t, j + 1) + 1))
TextPairs(t, i, acc) == TextKey(t, i, acc, SkipWs(t, i))

\* the blocks of t from index i on, after the blocks acc
RECURSIVE TextBlocks(_, _, _)
TextBlock(t, acc, b) ==
    IF ~b.ok THEN OutOfScope
    ELSE IF b.nxt > Len(t) THEN [ok |-> TRUE, ents |-> Append(acc, b.props)]
    ELSE TextBlocks(t, SkipWs(t, b.nxt), Append(acc, b.props))
TextBlocks(t, i, acc) ==
    IF i > Len(t) \/ t[i] # LBRACE THEN OutOfScope
    ELSE TextBlock(t, acc, TextPairs(t, i + 1, <<>>))

\* the bytes of the entities lump, when the stream holds them all
EntityText ==
    SubSeq(file, Lump(LUMP_ENTITIES).offset + 1,
           Lump(LUMP_ENTITIES).offset + Lump(LUMP_ENTITIES).length)
TextEntities == TextBlocks(EntityText, 1, <<>>)

\* the index of the first pair of props with that key (0 if none)
RECURSIVE FirstWithKey(_, _, _)
FirstWithKey(props, key, i) ==
    IF i > Len(props) THEN 0
    ELSE IF props[i][1] = key THEN i ELSE FirstWithKey(props, key, i + 1)

\* keys looked up: those of the text and one that no text holds
LookupKeys == {<<97>>, Classname, Origin, <<122>>}

\* bsp_load_file succeeded on a stream whose entity text is in scope, with
\* every allocation request served
EntitiesLoaded ==
    /\ Loaded /\ ret = 1 /\ failAt = 0
    /\ Lump(LUMP_ENTITIES).length > 0
    /\ TextEntities.ok

InsideStream(k) ==
    /\ Lump(k).offset >= 0
    /\ Lump(k).length >= 0
    /\ Lump(k).offset + Lump(k).length <= Len(file)

\* the version is the supported one and every lump lies inside the stream
ValidInput == HeaderOK /\ \A k \in Lumps : InsideStream(k)

\* the count of every fixed-record lump is its length divided by the record
\* size, and a lump of length zero left a null array and count zero
CountsFollowLengths ==
    \A k \in FixedLumps :
        /\ out[CountField(k)] = Lump(k).length \div RecordSize(k)
        /\ Lump(k).length = 0 => out[ArrayField(k)] = NULL /\ out[CountField(k)] = 0

EntityTextInScope == Lump(LUMP_ENTITIES).length = 0 \/ TextEntities.ok

\* the miptexture lump is empty or holds its whole directory: a count N >= 0
\* and N offsets
MipDirectoryFits ==
    \/ MipLump.length = 0
    \/ /\ MipLump.length >= SizeofInt32
       /\ MipCount >= 0
       /\ MipCount <= (MipLump.length \div SizeofInt32) - 1

C13_BadHeaderFailsEarly ==
    (pc = "returned" /\ bsp # NULL /\ ~HeaderOK) =>
        /\ ret = 0
        /\ runs = <<>>
        /\ nalloc = 1
        /\ Blocks = {bsp}
        /\ g.cleanups = 0

\* bsp_load_file returned failure for a whole header of version 30, with
\* every lump of the stream present and well-formed
C13_Witness ==
    /\ pc = "returned" /\ bsp # NULL /\ ret = 0
    /\ Len(file) >= SizeofHeader
    /\ Header(file).version = 30
    /\ \A k \in Lumps : Lump(k).length > 0 /\ InsideStream(k)

\* C14: within one bsp_load_file call the decoders run at most once each, in
\* the order of the lump indices 0..14, after the header check and while no
\* decoder has failed; after the first failure no later decoder runs,
\* bsp_cleanup runs once and the call returns 0; 1 is returned after all 15.
C14_DecodersInOrder ==
    /\ \A i \in 1..Len(runs) : runs[i] = i - 1
    /\ Len(runs) > 0 => bsp # NULL /\ HeaderOK
    /\ pc = "loading" => Len(runs) = next /\ ret = -1 /\ g.cleanups = 0
    /\ \A k \in Lumps :
          (Lump(k).offset < 0 /\ Lump(k).length > 0) => Len(runs) <= k + 1
    /\ (pc = "returned" /\ bsp # NULL /\ HeaderOK /\ ret = 0) =>
          Len(runs) = next + 1 /\ g.cleanups = 1
    /\ (pc = "returned" /\ ret = 1) =>
          Len(runs) = BSP_LUMP_COUNT /\ g.cleanups = 0

\* the decoder of the vertices lump failed on a negative offset after three
\* decoders succeeded: cleanup ran and the call returned 0
C14_Witness ==
    /\ pc = "returned" /\ ret = 0 /\ failAt = 0
    /\ Lump(LUMP_VERTICES).offset < 0 /\ Lump(LUMP_VERTICES).length > 0
    /\ runs = <<LUMP_ENTITIES, LUMP_PLANES, LUMP_MIPTEX, LUMP_VERTICES>>
    /\ g.cleanups = 1
    /\ \A k \in LUMP_NODES..LUMP_MODELS : Lump(k).length > 0

\* C15: for every miptexture count N read from a blob of S >= 4 bytes the
\* directory-size test of read_miptex is the comparison of S with the number
\* 4 + 4 * N, and with N < 0 no allocation is requested with a size derived
\* from N: every request of the call is one that was served.  S < 4 + 4 * N
\* is written (S \div 4) - 1 < N, the same comparison of integers.
C15_CountTestIsExact ==
    (/\ Loaded /\ failAt = 0
     /\ Len(runs) > LUMP_MIPTEX
     /\ MipLump.offset >= 0
     /\ MipLump.length >= SizeofInt32
     /\ Available(MipLump.offset) >= MipLump.length) =>
        /\ SizeLess(SizeT(MipLump.length), dir_size(MipCount))
              <=> (MipLump.length \div SizeofInt32) - 1 < MipCount
        /\ MipCount < 0 => nalloc = Len(heap)

\* C16: after bsp_create, two bsp_load_file calls on the same object that
\* both return 1, and bsp_destroy, every block either load allocated has been
\* passed to the free function exactly once.
C16_ReloadReleasesFirstLoad ==
    (pc = "destroyed" /\ ret = 1 /\ loads = 2 /\ failAt = 0) =>
        \A b \in Blocks : heap[b].frees = 1

====
